---- MODULE Spec2Model ----
(***************************************************************************)
(* A model of the synchronization engine CodeMirrorBlocks                  *)
(* (src/src/ui/Toolbar.js, lines 135-645): the text buffer it drives, the  *)
(* tree it keeps, in-place literal editing, the insertion quarantine and   *)
(* the drag-and-drop relocation.                                           *)
(*                                                                         *)
(* Text is a sequence of one-character strings.  A position is a record    *)
(* [line, ch], zero based, as the buffer's {line, ch} objects.             *)
(***************************************************************************)
EXTENDS Naturals, Integers, Sequences, FiniteSets, TLC

VARIABLES
  buf,            \* this.cm.getValue(): the buffer text
  blockMode,      \* this.blockMode: Off (false) or the name of a block mode
  ast,            \* this.ast: the current tree, or NullAst (null)
  focus,          \* document.activeElement
  els,            \* the visual elements of the current tree's nodes
  quars,          \* the quarantine nodes made by insertionQuarantine
  timers,         \* the pending setTimeout callbacks, in firing order
  hasInvalidEdit, \* this.hasInvalidEdit
  hooks,          \* this.willInsertNode, this.didInsertNode
  drag,           \* event.dataTransfer of the drag in flight
  script,         \* the inputs the user has yet to make (environment)
  classes,        \* this.cm.getWrapperElement().classList
  hidden,         \* the nodes whose element is hidden (presentation)
  marks,          \* the MARKER tags on the buffer's marks, and foreign marks
  last            \* what the handler that ran last did (observation only)

vars == <<buf, blockMode, ast, focus, els, quars, timers,
          hasInvalidEdit, hooks, drag, script, classes, hidden, marks, last>>

\* what the handlers of editing and of the drop leave alone
rest == <<script, classes, hidden, marks>>

----------------------------------------------------------------------------
(* Bounds of the model.                                                    *)

\* the longest buffer text an initial state holds
MaxLen == 3
\* the longest buffer text on which a handler that grows the text still runs
MaxGrow == 5

\* the value false of this.blockMode
Off == "off"

NL == "\n"
SP == " "
QUOTE == "\""

----------------------------------------------------------------------------
(* The text buffer: positions, offsets, range read and range replace.      *)

Min(a, b) == IF a < b THEN a ELSE b
Max(a, b) == IF a < b THEN b ELSE a

Pos(l, c) == [line |-> l, ch |-> c]

\* number of line separators in text
RECURSIVE CountNL(_)
CountNL(text) ==
  IF text = <<>> THEN 0
  ELSE (IF Head(text) = NL THEN 1 ELSE 0) + CountNL(Tail(text))

\* cm.lineCount()
LineCount(text) == CountNL(text) + 1

\* offset at which line l starts (l < LineCount(text))
RECURSIVE LineStart(_, _)
LineStart(text, l) ==
  IF l = 0 THEN 0
  ELSE LET k == CHOOSE i \in 1..Len(text) :
                  /\ text[i] = NL
                  /\ CountNL(SubSeq(text, 1, i)) = l
       IN k

\* length of line l, without its separator
LineLen(text, l) ==
  LET s == LineStart(text, l)
      e == IF l + 1 < LineCount(text) THEN LineStart(text, l + 1) - 1
           ELSE Len(text)
  IN e - s

\* cm.indexFromPos(pos): the position is clipped to the document first
IndexFromPos(text, pos) ==
  IF pos.line >= LineCount(text) THEN Len(text)
  ELSE LineStart(text, pos.line) + Min(pos.ch, LineLen(text, pos.line))

\* cm.posFromIndex(i)
PosFromIndex(text, i) ==
  LET l == CountNL(SubSeq(text, 1, i))
  IN Pos(l, i - LineStart(text, l))

\* every position of the document
AllPos(text) == { PosFromIndex(text, i) : i \in 0..Len(text) }

\* cm.getRange(from, to)
GetRange(text, from, to) ==
  SubSeq(text, IndexFromPos(text, from) + 1, IndexFromPos(text, to))

\* cm.replaceRange(repl, from, to): the ends are swapped when out of order
ReplaceRange(text, repl, from, to) ==
  LET i == IndexFromPos(text, from)
      j == IndexFromPos(text, to)
      lo == Min(i, j)
      hi == Max(i, j)
  IN SubSeq(text, 1, lo) \o repl \o SubSeq(text, hi + 1, Len(text))

----------------------------------------------------------------------------
(* The parser (this.parser): parse gives one literal node per maximal run  *)
(* of non-blank characters, lex accepts a fragment whose string quotes     *)
(* are balanced.                                                           *)

IsWS(c) == c \in {SP, NL}

TokenStarts(text) ==
  { i \in 1..Len(text) : ~IsWS(text[i]) /\ (i = 1 \/ IsWS(text[i - 1])) }

\* the last character of the token that starts at i
TokenEnd(text, i) ==
  CHOOSE j \in i..Len(text) :
    /\ \A k \in i..j : ~IsWS(text[k])
    /\ (j = Len(text) \/ IsWS(text[j + 1]))

\* the k-th smallest member of a set of numbers
RECURSIVE Nth(_, _)
Nth(S, k) ==
  LET m == CHOOSE x \in S : \A y \in S : x <= y
  IN IF k = 1 THEN m ELSE Nth(S \ {m}, k - 1)

\* the token the parser reads as a blank, a hole to be filled in
BLANK == "_"

NodeType(tokenText) == IF tokenText = <<BLANK>> THEN "blank" ELSE "literal"

\* this.parser.parse(text).rootNodes; a node's id is its place in the tree
Parse(text) ==
  LET S == TokenStarts(text)
  IN [ k \in 1..Cardinality(S) |->
         LET i == Nth(S, k)
             j == TokenEnd(text, i)
         IN [ type |-> NodeType(SubSeq(text, i, j)),
              from |-> PosFromIndex(text, i - 1),
              to   |-> PosFromIndex(text, j) ] ]

RECURSIVE CountQuote(_)
CountQuote(text) ==
  IF text = <<>> THEN 0
  ELSE (IF Head(text) = QUOTE THEN 1 ELSE 0) + CountQuote(Tail(text))

\* this.parser.lex(text) returns (TRUE) or throws (FALSE)
LexOk(text) == CountQuote(text) % 2 = 0

\* this.ast: null until the first render, then the tree parsed last
NullAst == [ null |-> TRUE, nodes |-> <<>> ]
Tree(nodes) == [ null |-> FALSE, nodes |-> nodes ]

\* ast.nodeMap.get(id)
HasNode(tree, id) == id \in 1..Len(tree.nodes)

----------------------------------------------------------------------------
(* Elements, focus and the engine's state taken as one record, so that a   *)
(* handler and the handlers it sets off (a replaceRange fires the change   *)
(* notification, removing a focused element fires its blur handler: see    *)
(* the comment of saveEditableEl) run as one step.                         *)

\* the number of quarantine nodes alive at one time
MaxQuar == 2
\* the number of pending deferred callbacks at which no further input comes
MaxTimers == 2

Ref(k, i) == [k |-> k, i |-> i]
OnCm == Ref("cm", 0)
OnBody == Ref("body", 0)

\* the element render() gives a node: it shows the node's text
FreshEl(text, node) ==
  [ text |-> GetRange(text, node.from, node.to), oldText |-> <<>>,
    editing |-> FALSE, error |-> FALSE, onblur |-> FALSE ]

FreshEls(text, tree) == [ k \in 1..Len(tree) |-> FreshEl(text, tree[k]) ]

\* a free slot for a quarantine node
FreeQ ==
  [ live |-> FALSE, from |-> Pos(0, 0), to |-> Pos(0, 0), mark |-> 0,
    text |-> <<>>, oldText |-> <<>>,
    editing |-> FALSE, error |-> FALSE, onblur |-> FALSE ]

\* where a bookmark at offset p is after the characters lo..hi are replaced
\* by n characters; -1 when the characters around it are deleted
ShiftMark(p, lo, hi, n) ==
  IF p <= lo THEN p
  ELSE IF p >= hi THEN (p - (hi - lo)) + n
  ELSE 0 - 1

\* a reference to an element that is no longer in the document
Stale(ref) ==
  IF ref.k \in {"tree", "staleTree"} THEN Ref("staleTree", 0)
  ELSE IF ref.k \in {"quar", "staleQuar"} THEN Ref("staleQuar", 0)
  ELSE IF ref.k \in {"focus", "staleFocus"} THEN Ref("staleFocus", 0)
  ELSE ref

\* cm.replaceRange on the state record: the text changes, bookmarks move
Replace(st, repl, from, to) ==
  LET i == IndexFromPos(st.buf, from)
      j == IndexFromPos(st.buf, to)
      lo == Min(i, j)
      hi == Max(i, j)
  IN [ st EXCEPT
         !.buf = ReplaceRange(st.buf, repl, from, to),
         !.quars = [ q \in DOMAIN st.quars |->
                       IF st.quars[q].live
                       THEN [ st.quars[q] EXCEPT
                                !.mark = ShiftMark(@, lo, hi, Len(repl)) ]
                       ELSE st.quars[q] ],
         !.nRepl = @ + 1 ]

\* the quarantine bookmarks cm.findMarks({0,0}, {lineCount,0}) returns: a
\* zero-width mark on the edge of the queried range is not in it
FoundMarks(st) ==
  { q \in DOMAIN st.quars :
      /\ st.quars[q].live
      /\ 0 < st.quars[q].mark
      /\ st.quars[q].mark < Len(st.buf) }

\* the state the handlers work on; the counters start at zero in each step
St ==
  [ buf |-> buf, mode |-> blockMode, ast |-> ast, els |-> els,
    quars |-> quars, timers |-> timers, flag |-> hasInvalidEdit,
    focus |-> focus, nRepl |-> 0, nRender |-> 0, nHook |-> 0, nSave |-> 0 ]

Install(st) ==
  /\ buf' = st.buf
  /\ blockMode' = st.mode
  /\ ast' = st.ast
  /\ els' = st.els
  /\ quars' = st.quars
  /\ timers' = st.timers
  /\ hasInvalidEdit' = st.flag
  /\ focus' = st.focus

\* what a step leaves in last
NoLast ==
  [ op |-> "init", kind |-> "", pre |-> <<>>, text |-> <<>>,
    src |-> <<0, 0>>, dst |-> <<0, 0>>, at |-> 0, ref |-> OnBody,
    nRepl |-> 0, nRender |-> 0, nHook |-> 0, nSave |-> 0,
    key |-> "", saved |-> FALSE, left |-> OnBody, entered |-> FALSE,
    raised |-> FALSE, reported |-> FALSE,
    dtype |-> "", dnode |-> <<0, 0>> ]

Observed(st, op, kind) ==
  [ NoLast EXCEPT !.op = op, !.kind = kind, !.pre = buf,
                  !.nRepl = st.nRepl, !.nRender = st.nRender,
                  !.nHook = st.nHook, !.nSave = st.nSave ]

----------------------------------------------------------------------------
(* The re-render pipeline and the exit from editing.                       *)

RECURSIVE SaveEdit(_, _, _, _)
RECURSIVE Render(_)

\* handleChange: the change notification re-renders while a mode is active
HandleChange(st) == IF st.mode # Off THEN Render(st) ELSE st

\* checkEditableEl: the element is marked when parser.lex throws
CheckEditableEl(st, ref, text) ==
  IF LexOk(text) THEN st
  ELSE IF ref.k = "tree" THEN [ st EXCEPT !.els[ref.i].error = TRUE ]
  ELSE IF ref.k = "quar" THEN [ st EXCEPT !.quars[ref.i].error = TRUE ]
  ELSE st

\* node.quarantine.clear(): the bookmark and its widget leave the document
ClearQuarantine(st, ref) ==
  IF ref.k # "quar" THEN st
  ELSE [ st EXCEPT
           !.quars[ref.i] = FreeQ,
           !.timers = [ t \in DOMAIN st.timers |->
                          IF st.timers[t] = ref THEN Stale(ref)
                          ELSE st.timers[t] ] ]

\* saveEditableEl: the element stops being editable, then the range is
\* replaced, which fires the change notification
SaveEditableEl(st, ref, text, range) ==
  LET st0 == [ st EXCEPT !.nSave = @ + 1 ]
      st1 == IF ref.k = "tree"
             THEN [ st0 EXCEPT !.els[ref.i].onblur = FALSE,
                               !.els[ref.i].editing = FALSE,
                               !.els[ref.i].error = FALSE ]
             ELSE st0
  IN HandleChange(Replace(st1, text, range.from, range.to))

\* what saveEdit sets when the text does not lex: the deferred editLiteral
\* and the flag
InvalidEdit(st, ref) ==
  [ st EXCEPT !.timers = Append(@, ref), !.flag = TRUE ]

\* saveEdit(node, nodeEl, event), nodeEl.innerText being text
SaveEdit(st, ref, node, text) ==
  LET st1 == CheckEditableEl(st, ref, text)
  IN IF LexOk(text)
     THEN IF ref.k \in {"quar", "staleQuar"}
          THEN SaveEditableEl(ClearQuarantine(st1, ref),
                              Stale(ref), text \o <<SP>>, node)
          ELSE SaveEditableEl(st1, ref, text, node)
     ELSE InvalidEdit(st1, ref)

\* render: parse the text, clear the marks, render the root nodes.  The
\* elements of the old tree and the widgets of the bookmarks cleared leave
\* the document; a focused one among them fires its blur handler
Render(st) ==
  LET tree == Parse(st.buf)
      found == FoundMarks(st)
      f == st.focus
      st1 == [ st EXCEPT
                 !.ast = Tree(tree),
                 !.els = FreshEls(st.buf, tree),
                 !.quars = [ q \in DOMAIN st.quars |->
                               IF q \in found THEN FreeQ ELSE st.quars[q] ],
                 !.timers = [ t \in DOMAIN st.timers |->
                                LET r == st.timers[t]
                                IN IF \/ r.k \in {"tree", "focus"}
                                      \/ (r.k = "quar" /\ r.i \in found)
                                   THEN Stale(r) ELSE r ],
                 !.focus = IF f.k = "tree" \/ (f.k = "quar" /\ f.i \in found)
                           THEN OnBody ELSE f,
                 !.nRender = @ + 1 ]
  IN IF f.k = "tree" /\ st.els[f.i].onblur
     THEN SaveEdit(st1, Stale(f), st.ast.nodes[f.i], st.els[f.i].text)
     ELSE IF f.k = "quar" /\ f.i \in found /\ st.quars[f.i].onblur
     THEN SaveEdit(st1, Stale(f), st.quars[f.i], st.quars[f.i].text)
     ELSE st1

----------------------------------------------------------------------------
(* In-place editing and the insertion quarantine.                          *)

IsEl(ref) == ref.k \in {"tree", "quar"}

\* an element that has left the document
ZombieEl ==
  [ text |-> <<>>, oldText |-> <<>>,
    editing |-> FALSE, error |-> FALSE, onblur |-> FALSE ]

ElOf(st, ref) ==
  IF ref.k = "tree" THEN st.els[ref.i]
  ELSE IF ref.k = "quar" THEN st.quars[ref.i]
  ELSE ZombieEl

NodeOf(st, ref) ==
  IF ref.k = "tree" THEN st.ast.nodes[ref.i] ELSE st.quars[ref.i]

\* what editLiteral sets on node.el: the cached text, contentEditable and
\* the class, the blur and keydown handlers
EditableEl(el, old) ==
  [ el EXCEPT !.oldText = old, !.editing = TRUE, !.onblur = TRUE ]

\* the focus moves to ref: the element that had it loses it and fires its
\* blur handler, which is saveEdit while it is being edited; then ref gets
\* the focus, unless the handler took its element out of the document
MoveFocus(st, ref) ==
  LET prev == st.focus
      st1 == [ st EXCEPT !.focus = OnBody ]
      st2 == IF prev # ref /\ IsEl(prev) /\ ElOf(st, prev).onblur
             THEN SaveEdit(st1, prev, NodeOf(st, prev), ElOf(st, prev).text)
             ELSE st1
      attached == IF ref.k = "tree" THEN st2.nRender = st.nRender
                  ELSE IF ref.k = "quar" THEN st2.quars[ref.i].live
                  ELSE TRUE
  IN IF prev = ref THEN st
     ELSE [ st2 EXCEPT !.focus = IF attached THEN ref ELSE OnBody ]

\* editLiteral(node, event) up to the selection it sets
EditLiteralEl(st, ref) ==
  LET node == NodeOf(st, ref)
      old == GetRange(st.buf, node.from, node.to)
  IN IF ref.k = "tree"
     THEN [ st EXCEPT !.els[ref.i] = EditableEl(@, old) ]
     ELSE [ st EXCEPT !.quars[ref.i] = EditableEl(@, old) ]

\* editLiteral(node, event): the selection set inside node.el moves the
\* focus there
EditLiteral(st, ref) == MoveFocus(EditLiteralEl(st, ref), ref)

\* the filler insertionQuarantine parses a fake literal behind
Filler(cur) == [ i \in 1..cur.line |-> NL ] \o [ i \in 1..cur.ch |-> SP ]

\* the input handled as the buffer handles it by default, written at the
\* cursor: a fault that C10_QuarantineOutsideBuffer detects
DefaultInput(st, text, cur) == Replace(st, text, cur, cur)

\* e.preventDefault() in insertionQuarantine: the default handling of the
\* input is suppressed, the state stays as it is
Intercept(st, text, cur) == st

\* the node insertionQuarantine makes: the fake literal at the cursor,
\* forced to zero width, showing the input, on a bookmark at the cursor
QuarantineNode(text, input, cur) ==
  LET node == Parse(Filler(cur) \o <<"x">>)[1]
  IN [ FreeQ EXCEPT !.live = TRUE,
                    !.from = node.from,
                    !.to = [ node.to EXCEPT !.ch = node.from.ch ],
                    !.text = input,
                    !.mark = IndexFromPos(text, cur) ]

\* insertionQuarantine(e): input is the character typed or the text pasted
InsertionQuarantine(input, cur) ==
  /\ focus = OnCm
  /\ Len(timers) < MaxTimers
  /\ \E q \in 1..MaxQuar :
       /\ ~quars[q].live
       /\ \A p \in 1..(q - 1) : quars[p].live
       /\ LET st0 == Intercept(St, input, cur)
              st == [ st0 EXCEPT
                        !.quars[q] = QuarantineNode(st0.buf, input, cur),
                        !.timers = Append(@, Ref("quar", q)) ]
          IN /\ Install(st)
             /\ last' = [ Observed(st, "quarantine", "") EXCEPT
                            !.ref = Ref("quar", q), !.text = input ]
  /\ UNCHANGED <<hooks, drag>>

\* the deferred callback () => this.editLiteral(node, e) that was set first
TimerFire ==
  /\ timers # <<>>
  /\ Head(timers).k \notin {"focus", "staleFocus"}
  /\ LET ref == Head(timers)
         st0 == [ St EXCEPT !.timers = Tail(timers) ]
         prev == focus
         blurs == IsEl(ref) /\ prev # ref /\ IsEl(prev) /\ ElOf(St, prev).onblur
     IN IF IsEl(ref)
        THEN LET st == EditLiteral(st0, ref)
             IN /\ Install(st)
                /\ last' = [ Observed(st, "timer",
                                      IF ElOf(St, ref).error THEN "reenter"
                                      ELSE "enter") EXCEPT
                               !.ref = ref,
                               !.entered = ElOf(EditLiteralEl(st0, ref), ref).editing,
                               !.saved = blurs,
                               !.left = IF blurs THEN prev ELSE OnBody,
                               !.text = IF blurs THEN ElOf(St, prev).text ELSE <<>> ]
        ELSE \* the node's element is no longer in the document: the
             \* fields are set on it all the same, the focus stays
             /\ Install(st0)
                /\ last' = [ Observed(st0, "timer", "stale") EXCEPT
                               !.ref = ref,
                               !.entered = EditableEl(ZombieEl, <<>>).editing ]
  /\ UNCHANGED <<hooks, drag>>

\* the deferred callback of handleCopyCut that was set first:
\* activeEl.focus() on the element that had the focus at the cut, which
\* does nothing once the element has left the document
RefocusFire ==
  /\ timers # <<>>
  /\ Head(timers).k \in {"focus", "staleFocus"}
  /\ LET ref == Head(timers)
         st0 == [ St EXCEPT !.timers = Tail(timers) ]
         st == IF ref.k = "focus" THEN MoveFocus(st0, Ref("tree", ref.i))
               ELSE st0
     IN /\ Install(st)
        /\ last' = [ Observed(st, "timer", "refocus") EXCEPT !.ref = ref ]
  /\ UNCHANGED <<hooks, drag>>

\* a click on the element of node n: selectNode gives it the focus
SelectNode(n) ==
  /\ ~ast.null
  /\ n \in 1..Len(ast.nodes)
  /\ focus # Ref("tree", n)
  /\ Len(timers) < MaxTimers
  /\ LET prev == focus
         blurs == IsEl(prev) /\ ElOf(St, prev).onblur
         st == MoveFocus(St, Ref("tree", n))
     IN /\ Install(st)
        /\ last' = [ Observed(st, "blur", "select") EXCEPT
                       !.ref = prev, !.saved = blurs,
                       !.left = IF blurs THEN prev ELSE OnBody,
                       !.text = IF blurs THEN ElOf(St, prev).text ELSE <<>> ]
  /\ UNCHANGED <<hooks, drag>>

\* Enter on the selected node (handleKeyDown), or the second click of a
\* double click on it (ondblclick), which the raised flag suppresses
EditSelected(n, pointer) ==
  /\ ~ast.null
  /\ n \in 1..Len(ast.nodes)
  /\ focus = Ref("tree", n)
  /\ ast.nodes[n].type \in {"literal", "blank"}
  /\ ~els[n].onblur
  /\ pointer => ~hasInvalidEdit
  /\ LET st == EditLiteral(St, Ref("tree", n))
     IN /\ Install(st)
        /\ last' = [ Observed(st, "edit", "") EXCEPT
                       !.ref = Ref("tree", n),
                       !.entered = ElOf(st, Ref("tree", n)).editing ]
  /\ UNCHANGED <<hooks, drag>>

\* the user changes the text of the element being edited
TypeInEl(text) ==
  /\ IsEl(focus)
  /\ ElOf(St, focus).editing
  /\ text # ElOf(St, focus).text
  /\ LET st == IF focus.k = "tree"
               THEN [ St EXCEPT !.els[focus.i].text = text ]
               ELSE [ St EXCEPT !.quars[focus.i].text = text ]
     IN /\ Install(st)
        /\ last' = [ Observed(st, "type", "") EXCEPT
                       !.ref = focus, !.text = text ]
  /\ UNCHANGED <<hooks, drag>>

\* handleEditKeyDown on the element being edited: Esc puts the cached text
\* back; Enter, Tab and Esc blur the element
HandleEditKeyDown(key) ==
  /\ IsEl(focus)
  /\ ElOf(St, focus).onblur
  /\ key \in {"Enter", "Tab", "Esc"}
  /\ Len(timers) < MaxTimers
  /\ LET text == IF key = "Esc" THEN ElOf(St, focus).oldText
                 ELSE ElOf(St, focus).text
         st0 == IF focus.k = "tree"
                THEN [ St EXCEPT !.els[focus.i].text = text ]
                ELSE [ St EXCEPT !.quars[focus.i].text = text ]
         st == MoveFocus(st0, OnBody)
     IN /\ Install(st)
        /\ last' = [ Observed(st, "key", "") EXCEPT
                       !.key = key, !.ref = focus, !.saved = TRUE,
                       !.left = focus,
                       !.text = text ]
  /\ UNCHANGED <<hooks, drag>>

\* the focus goes elsewhere: to the buffer's input or out of the editor
Blur(to) ==
  /\ focus # to
  /\ to \in {OnCm, OnBody}
  /\ Len(timers) < MaxTimers
  /\ LET prev == focus
         blurs == IsEl(prev) /\ ElOf(St, prev).onblur
         st == MoveFocus(St, to)
     IN /\ Install(st)
        /\ last' = [ Observed(st, "blur", "") EXCEPT
                       !.ref = prev, !.saved = blurs,
                       !.left = IF blurs THEN prev ELSE OnBody,
                       !.text = IF blurs THEN ElOf(St, prev).text ELSE <<>> ]
  /\ UNCHANGED <<hooks, drag>>

----------------------------------------------------------------------------
(* Drag and drop.                                                          *)

NoDrag == [ on |-> FALSE, id |-> 0, text |-> <<>> ]

\* no BlockMarker made, no mark tagged, no mark of other code
NoMarks == [ tags |-> {}, owner |-> <<>>, cleared |-> {}, foreign |-> {} ]

\* the presentation state of an editor in the mode "blocks" that nobody
\* has decorated
Undecorated ==
  /\ classes = {"blocks"}
  /\ hidden = {}
  /\ marks = NoMarks

\* isDropTarget(event.target), dn being the node the target resolves to
IsDropTarget(tree, dn) ==
  IF dn = 0 THEN TRUE
  ELSE tree.nodes[dn].type \in {"literal", "blank"}

\* the text dropped: a line break goes first when the drop landed outside
DropText(text, src, outside) ==
  (IF outside THEN <<NL>> ELSE <<>>) \o GetRange(text, src.from, src.to)

\* a no-op test that forgets the start of the source: a fault that
\* C2_NoOpDrop detects
NoOpAtEndOnly(destination, src) ==
  destination.line = src.to.line /\ destination.ch = src.to.ch

\* the no-op test of dropOntoNode
IsNoOpDrop(destination, src) ==
  \/ (destination.line = src.to.line /\ destination.ch = src.to.ch)
  \/ (destination.line = src.from.line /\ destination.ch = src.from.ch)

\* an ordering test that always has the source cleared first: a fault that
\* C1_OffsetSafe detects
ClearSourceFirst(text, src, pos) == FALSE

\* the test that orders the two edits of a drop
SourcePrecedes(text, src, pos) ==
  IndexFromPos(text, src.from) < IndexFromPos(text, pos)

\* this.willInsertNode, when registered, rewrites the text dropped
WillInsertNode(hk, text) ==
  IF hk.will = "pad" THEN text \o <<SP>> ELSE text

\* the node-replacement branch of the transaction
DropOnLiteral(st, text, src, dest) ==
  IF SourcePrecedes(st.buf, src, dest.from)
  THEN Replace(Replace(st, text, dest.from, dest.to), <<>>, src.from, src.to)
  ELSE Replace(Replace(st, <<>>, src.from, src.to), text, dest.from, dest.to)

\* the plain-insertion branch of the transaction, text being the text the
\* pre-insertion hook returned
DropAtPosition(st, text, src, destination) ==
  IF SourcePrecedes(st.buf, src, destination)
  THEN Replace(Replace(st, text, destination, destination),
               <<>>, src.from, src.to)
  ELSE Replace(Replace(st, <<>>, src.from, src.to),
               text, destination, destination)

\* the hooks a plain insertion invokes
HookCalls(hk) ==
  (IF hk.will # "none" THEN 1 ELSE 0) + (IF hk.did THEN 1 ELSE 0)

\* cm.operation(...): the change notifications of the edits made inside
\* are delivered when the operation ends, one per edit
EndOperation(st) ==
  IF st.nRepl = 2 THEN HandleChange(HandleChange(st))
  ELSE IF st.nRepl = 1 THEN HandleChange(st)
  ELSE st

\* startDraggingNode(node, event); nodeEventHandler stops the dragstart of
\* a blank's element before it gets there
StartDraggingNode(n) ==
  /\ ~ast.null
  /\ n \in 1..Len(ast.nodes)
  /\ ast.nodes[n].type # "blank"
  /\ ~drag.on
  /\ drag' = [ on |-> TRUE, id |-> n,
               text |-> GetRange(buf, ast.nodes[n].from, ast.nodes[n].to) ]
  /\ last' = [ Observed(St, "drag", "") EXCEPT !.ref = Ref("tree", n) ]
  /\ UNCHANGED <<buf, blockMode, ast, focus, els, quars, timers,
                 hasInvalidEdit, hooks>>

\* a drag that starts outside the editor carries no text/id
ForeignDrag(text) ==
  /\ ~drag.on
  /\ drag' = [ on |-> TRUE, id |-> 0, text |-> text ]
  /\ last' = Observed(St, "drag", "foreign")
  /\ UNCHANGED <<buf, blockMode, ast, focus, els, quars, timers,
                 hasInvalidEdit, hooks>>

\* dropOntoNode(destinationNode, event): dn is the node the target resolves
\* to (0: none), destination the location of the target or of the pointer,
\* outside whether the pointer was outside the text
DropOntoNode(dn, destination, outside) ==
  /\ drag.on
  /\ ~ast.null
  /\ dn \in 0..Len(ast.nodes)
  /\ IsDropTarget(ast, dn)
  /\ drag' = NoDrag
  /\ UNCHANGED hooks
  /\ IF ~HasNode(ast, drag.id)
     THEN \* both console.error calls, then sourceNode.from throws
          /\ last' = [ Observed(St, "drop", "stale") EXCEPT
                         !.raised = TRUE, !.reported = TRUE ]
          /\ UNCHANGED <<buf, blockMode, ast, focus, els, quars, timers,
                         hasInvalidEdit>>
     ELSE LET src == ast.nodes[drag.id]
              dest == IF dn # 0 THEN ast.nodes[dn] ELSE src
              text == DropText(buf, src, outside)
              s == <<IndexFromPos(buf, src.from), IndexFromPos(buf, src.to)>>
              at == IndexFromPos(buf, destination)
              dtype == IF dn # 0 THEN dest.type ELSE ""
              dnode == IF dn # 0
                       THEN <<IndexFromPos(buf, dest.from),
                              IndexFromPos(buf, dest.to)>>
                       ELSE <<0, 0>>
          IN IF IsNoOpDrop(destination, src)
             THEN /\ last' = [ Observed(St, "drop", "noop") EXCEPT
                                 !.src = s, !.text = text, !.at = at,
                                 !.dtype = dtype, !.dnode = dnode,
                                 !.dst = IF dn # 0 /\ dest.type = "literal"
                                         THEN <<IndexFromPos(buf, dest.from),
                                                IndexFromPos(buf, dest.to)>>
                                         ELSE <<at, at>> ]
                  /\ UNCHANGED <<buf, blockMode, ast, focus, els, quars,
                                 timers, hasInvalidEdit>>
             ELSE IF dn # 0 /\ dest.type = "literal"
             THEN LET st == EndOperation(DropOnLiteral(St, text, src, dest))
                  IN /\ Install(st)
                     /\ last' = [ Observed(st, "drop", "node") EXCEPT
                                    !.src = s, !.text = text, !.at = at,
                                    !.dtype = dtype, !.dnode = dnode,
                                    !.dst = <<IndexFromPos(buf, dest.from),
                                              IndexFromPos(buf, dest.to)>> ]
             ELSE LET hooked == WillInsertNode(hooks, text)
                      done == DropAtPosition(St, hooked, src, destination)
                      st == EndOperation([ done EXCEPT !.nHook = HookCalls(hooks) ])
                  IN /\ Install(st)
                     /\ last' = [ Observed(st, "drop", "insert") EXCEPT
                                    !.src = s, !.text = hooked, !.at = at,
                                    !.dtype = dtype, !.dnode = dnode,
                                    !.dst = <<at, at>> ]

\* a change of the text made by client code: cm.replaceRange from outside
ClientChange(repl, from, to) ==
  /\ LET st == HandleChange(Replace(St, repl, from, to))
     IN /\ Install(st)
        /\ last' = [ Observed(st, "change", "") EXCEPT !.text = repl ]
  /\ UNCHANGED <<hooks, drag>>

----------------------------------------------------------------------------
(* The drag-and-drop specification: a block-mode editor over any short     *)
(* text, with or without the two hooks; nodes are dragged and dropped and  *)
(* client code changes the text in between.                                *)

DropChars == {"a", BLANK, SP, NL}

Texts(chars, n) == UNION { [1..k -> chars] : k \in 0..n }

NoQuars == [ q \in 1..MaxQuar |-> FreeQ ]

InitDrop ==
  /\ buf \in Texts(DropChars, MaxLen)
  /\ blockMode = "blocks"
  /\ ast = Tree(Parse(buf))
  /\ els = FreshEls(buf, ast.nodes)
  /\ focus = OnCm
  /\ quars = NoQuars
  /\ timers = <<>>
  /\ hasInvalidEdit = FALSE
  /\ hooks \in [ will : {"none", "pad"}, did : BOOLEAN ]
  /\ drag = NoDrag
  /\ script = <<>>
  /\ Undecorated
  /\ last = NoLast

\* the pointer is outside the text only beside a line
AtLineEdge(text, pos) == pos.ch = 0 \/ pos.ch = LineLen(text, pos.line)

NextDrop ==
  \/ \E n \in 1..Len(ast.nodes) : StartDraggingNode(n) /\ UNCHANGED rest
  \/ ForeignDrag(<<"a">>) /\ UNCHANGED rest
  \/ \E dn \in 0..Len(ast.nodes), destination \in AllPos(buf), outside \in BOOLEAN :
       /\ Len(buf) + 2 <= MaxGrow
       /\ IF dn = 0 THEN TRUE
          ELSE /\ ~outside
               /\ IndexFromPos(buf, ast.nodes[dn].from) <= IndexFromPos(buf, destination)
               /\ IndexFromPos(buf, destination) <= IndexFromPos(buf, ast.nodes[dn].to)
       /\ outside => AtLineEdge(buf, destination)
       /\ DropOntoNode(dn, destination, outside)
       /\ UNCHANGED rest
  \/ \E from \in AllPos(buf), to \in AllPos(buf) :
       /\ drag.on
       /\ IndexFromPos(buf, from) < IndexFromPos(buf, to)
       /\ ClientChange(<<>>, from, to)
       /\ UNCHANGED rest

SpecDrop == InitDrop /\ [][NextDrop]_vars

----------------------------------------------------------------------------
(* Claims about the drop.                                                  *)

\* the text with the source range s cleared and the range d replaced by x,
\* both taken against the offsets of the original text t
Simultaneous(t, s, d, x) ==
  IF s[2] <= d[1]
  THEN SubSeq(t, 1, s[1]) \o SubSeq(t, s[2] + 1, d[1]) \o x
         \o SubSeq(t, d[2] + 1, Len(t))
  ELSE SubSeq(t, 1, d[1]) \o x \o SubSeq(t, d[2] + 1, s[1])
         \o SubSeq(t, s[2] + 1, Len(t))

Disjoint(s, d) == s[2] <= d[1] \/ d[2] <= s[1]

DropResolved == last.op = "drop" /\ last.kind # "stale"

\* the text of the source node before the drop
SourceText == SubSeq(last.pre, last.src[1] + 1, last.src[2])

\* C1 as stated: after every drop whose source range and destination (a
\* literal node's range or an insertion point) are disjoint, the text is
\* the original text with the source cleared and the source text put at
\* the destination, both against the original offsets.
C1_AsStated ==
  (DropResolved /\ Disjoint(last.src, last.dst))
    => buf = Simultaneous(last.pre, last.src, last.dst, SourceText)

\* C1, amended: the same for every drop that the no-op rule does not
\* discard (its destination is neither the start nor the end of the source
\* node), the text put at the destination being the text dropped: the
\* source text, with a line break in front when the drop landed outside
\* the text, as the pre-insertion hook rewrote it.  It holds whichever of
\* the source and the destination comes first.
C1_OffsetSafe ==
  (DropResolved /\ Disjoint(last.src, last.dst)
     /\ last.at # last.src[1] /\ last.at # last.src[2])
    => buf = Simultaneous(last.pre, last.src, last.dst, last.text)

\* a drop onto a literal node that lies before the source, in a text of two
\* lines, has been carried out
C1_Witness ==
  /\ last.op = "drop" /\ last.kind = "node"
  /\ last.dst[2] <= last.src[1]
  /\ LineCount(last.pre) = 2
  /\ buf # last.pre

\* C2: a drop whose destination is the start or the end of the source node
\* leaves the text as it was, issues no replaceRange and invokes no hook.
C2_NoOpDrop ==
  (DropResolved /\ (last.at = last.src[1] \/ last.at = last.src[2]))
    => (buf = last.pre /\ last.nRepl = 0 /\ last.nHook = 0 /\ last.nRender = 0)

\* a node was dropped on its own start while a pre-insertion hook is
\* registered and another node is there to be dropped on
C2_Witness ==
  /\ DropResolved /\ last.at = last.src[1] /\ last.src[1] < last.src[2]
  /\ hooks.will = "pad" /\ hooks.did
  /\ Len(ast.nodes) = 2

\* C3: a drop whose source id does not resolve is reported, changes neither
\* the text nor the tree, and its handler does not raise.
C3_StaleDropNotFatal ==
  (last.op = "drop" /\ last.kind = "stale")
    => (last.reported /\ buf = last.pre /\ ~last.raised)

\* the drop went through: it was neither stale nor discarded as a no-op
DropDone == last.op = "drop" /\ last.kind \in {"node", "insert"}

\* C17: the two edits of a drop are made in one transaction; the change
\* notification is handled once, after both, so that one re-render runs and
\* it parses the text both edits have been applied to.
C17_OneNotification ==
  DropDone => (last.nRepl = 2 /\ last.nRender = 1 /\ ast.nodes = Parse(buf))

\* C20: a drop whose destination is a blank node takes the branch of the
\* node replacement: the range of the blank is replaced by the source text,
\* the source range is cleared, and no hook is invoked.
C20_BlankLikeLiteral ==
  (DropDone /\ last.dtype = "blank" /\ Disjoint(last.src, last.dnode))
    => /\ last.kind = "node"
       /\ last.nHook = 0
       /\ buf = Simultaneous(last.pre, last.src, last.dnode, SourceText)

\* how many times the character c occurs in the text
CountOf(text, c) == Cardinality({ i \in 1..Len(text) : text[i] = c })

\* the two texts are made of the same characters, each as many times
SameChars(s, t) == \A c \in DropChars : CountOf(s, c) = CountOf(t, c)

\* a drop was carried out as a plain insertion while no hook is registered
PlainDrop ==
  /\ last.op = "drop" /\ last.kind = "insert"
  /\ hooks.will = "none" /\ ~hooks.did

\* the line break put in front of the text dropped outside the text
LeadingNL == IF last.text = SourceText THEN <<>> ELSE <<NL>>

\* C22: a plain insertion without hooks is a pure move wherever the
\* destination is, the inside of the source node included: the final text is
\* made of exactly the characters of the original text, plus one line break
\* when the drop landed outside the text.
C22_PureMove ==
  PlainDrop => SameChars(buf, LeadingNL \o last.pre)

\* the same for the destinations that are not strictly inside the source
\* node: there the drop is a pure move
C22_PureMoveOutsideSource ==
  (PlainDrop /\ ~(last.src[1] < last.at /\ last.at < last.src[2]))
    => SameChars(buf, LeadingNL \o last.pre)

\* a node was moved by a plain insertion to a place behind it
C22_MovedBehind ==
  /\ PlainDrop /\ last.src[2] < last.at
  /\ buf # last.pre

----------------------------------------------------------------------------
(* The editing specification: a block-mode editor over a short text of     *)
(* valid literals; the user types and pastes into the buffer, selects and  *)
(* edits nodes, types into the element being edited, leaves it with a key  *)
(* or by moving the focus, and the deferred callbacks fire.                *)
(* A new edit starts only while the text is shorter than MaxLen.           *)

EditTexts == { <<>>, <<"a">>, <<"a", SP, "a">> }
TypedChars == {"a", QUOTE}
PastedTexts == { <<"a", "a">> }
\* the longest text typed into an element
MaxText == 1

\* in block mode the nodes are atomic widgets: the cursor is not inside one
CursorOk(cur) ==
  \A k \in 1..Len(ast.nodes) :
    ~ /\ IndexFromPos(buf, ast.nodes[k].from) < IndexFromPos(buf, cur)
      /\ IndexFromPos(buf, cur) < IndexFromPos(buf, ast.nodes[k].to)

InitEdit ==
  /\ buf \in EditTexts
  /\ blockMode = "blocks"
  /\ ast = Tree(Parse(buf))
  /\ els = FreshEls(buf, ast.nodes)
  /\ focus = OnCm
  /\ quars = NoQuars
  /\ timers = <<>>
  /\ hasInvalidEdit = FALSE
  /\ hooks = [ will |-> "none", did |-> FALSE ]
  /\ drag = NoDrag
  /\ script = <<>>
  /\ Undecorated
  /\ last = NoLast

\* the text of the element that has the focus
FocusText == ElOf(St, focus).text

NextEdit ==
  \/ \E c \in TypedChars, cur \in AllPos(buf) :
       /\ Len(buf) < MaxLen
       /\ CursorOk(cur)
       /\ InsertionQuarantine(<<c>>, cur)
       /\ UNCHANGED rest
  \/ \E t \in PastedTexts, cur \in AllPos(buf) :
       /\ Len(buf) < MaxLen
       /\ CursorOk(cur)
       /\ InsertionQuarantine(t, cur)
       /\ UNCHANGED rest
  \/ TimerFire /\ UNCHANGED rest
  \/ \E n \in 1..Len(ast.nodes) : SelectNode(n) /\ UNCHANGED rest
  \/ \E n \in 1..Len(ast.nodes), pointer \in BOOLEAN :
       /\ Len(buf) < MaxLen
       /\ EditSelected(n, pointer)
       /\ UNCHANGED rest
  \/ \E c \in TypedChars :
       /\ Len(FocusText) < MaxText
       /\ TypeInEl(FocusText \o <<c>>)
       /\ UNCHANGED rest
  \/ /\ FocusText # <<>>
     /\ TypeInEl(SubSeq(FocusText, 1, Len(FocusText) - 1))
     /\ UNCHANGED rest
  \/ \E key \in {"Enter", "Tab", "Esc"} :
       HandleEditKeyDown(key) /\ UNCHANGED rest
  \/ \E to \in {OnCm, OnBody} : Blur(to) /\ UNCHANGED rest

SpecEdit == InitEdit /\ [][NextEdit]_vars

----------------------------------------------------------------------------
(* Claims about in-place editing and the quarantine.                       *)

\* the step just taken ran the blur handler of an element being edited
BlurRan == last.op \in {"blur", "key", "timer"} /\ last.saved

\* the elements in the document that show as being edited or in error
Marked ==
  { Ref("tree", n) : n \in { k \in 1..Len(els) : els[k].editing \/ els[k].error } }
    \cup
  { Ref("quar", q) : q \in { k \in 1..MaxQuar :
        quars[k].live /\ (quars[k].editing \/ quars[k].error) } }

Pending(ref) == \E t \in 1..Len(timers) : timers[t] = ref

\* C4: when an element being edited loses the focus with text that does not
\* lex, the text of the buffer is as it was, no replaceRange was issued, the
\* element shows the error, the flag is raised and the callback that puts
\* the node back into editing is pending; that callback, when it fires for
\* a node still in the document, leaves the node being edited; and a step
\* that runs a blur handler changes the buffer only when the text of the
\* element it left lexes.
C4_ErroringBlocksCommit ==
  /\ (BlurRan /\ ~LexOk(last.text))
       => /\ buf = last.pre
          /\ last.nRepl = 0
          /\ hasInvalidEdit
          /\ Pending(last.left)
          /\ ElOf(St, last.left).error
  /\ (last.op = "timer" /\ last.kind = "reenter")
       => /\ focus = last.ref
          /\ ElOf(St, focus).editing /\ ElOf(St, focus).onblur
  /\ (last.op \in {"blur", "key", "timer"} /\ buf # last.pre)
       => (last.saved /\ LexOk(last.text))

\* the nodes with an edit in flight: the quarantine nodes and the tree nodes
\* whose elements show as being edited or in error
InFlight ==
  Cardinality({ q \in 1..MaxQuar : quars[q].live })
    + Cardinality({ k \in 1..Len(els) : els[k].editing \/ els[k].error })

\* every step taken while at most one node has an edit in flight leads to a
\* state where the statement of C4 is true: its failures need two
C4_OneEditAtATime == [][InFlight <= 1 => C4_ErroringBlocksCommit']_vars

\* the callback has put a tree node that was left with invalid text back
\* into editing
C4_Witness ==
  /\ last.op = "timer" /\ last.kind = "reenter"
  /\ last.ref.k = "tree" /\ focus = last.ref
  /\ els[focus.i].error /\ els[focus.i].editing
  /\ ~LexOk(els[focus.i].text)
  /\ hasInvalidEdit

\* C5: after a blur handler has committed valid text, no element showing an
\* error and no callback pending, the invalid-edit flag is not raised.
C5_FlagClearedOnCommit ==
  (BlurRan /\ LexOk(last.text) /\ last.nSave >= 1
     /\ timers = <<>> /\ \A r \in Marked : ~ElOf(St, r).error)
    => ~hasInvalidEdit

\* C6: at most one element in the document, of a tree node or of a
\* quarantine node, shows as being edited or in error.
C6_AtMostOneEditing == Cardinality(Marked) <= 1

\* C7: Esc on the element of a tree node being edited leaves the text of the
\* buffer as it was, issues no replaceRange and sets off no re-render.
C7_EscapeNoMutation ==
  (last.op = "key" /\ last.key = "Esc" /\ last.ref.k = "tree")
    => (buf = last.pre /\ last.nRepl = 0 /\ last.nRender = 0)

\* C8: Esc on the element of a quarantine node being edited removes the
\* node's bookmark and leaves the text of the buffer as it was.
C8_EscapeAbandonsQuarantine ==
  (last.op = "key" /\ last.key = "Esc" /\ last.ref.k = "quar")
    => (buf = last.pre /\ ~quars[last.ref.i].live)

\* C10: intercepting an input and typing into an element leave the text of
\* the buffer as it was and issue no replaceRange; so does leaving a
\* quarantine node's element with text that does not lex, and the node
\* stays; leaving it with text that lexes issues exactly one replaceRange,
\* which puts that text and one separator into the buffer.
C10_QuarantineOutsideBuffer ==
  /\ last.op = "quarantine"
       => /\ buf = last.pre /\ last.nRepl = 0 /\ last.nRender = 0
          /\ quars[last.ref.i].live /\ quars[last.ref.i].text = last.text
  /\ last.op = "type" => (buf = last.pre /\ last.nRepl = 0)
  /\ (BlurRan /\ last.left.k = "quar" /\ ~LexOk(last.text))
       => (buf = last.pre /\ last.nRepl = 0 /\ quars[last.left.i].live)
  /\ (BlurRan /\ last.left.k = "quar" /\ LexOk(last.text))
       => /\ last.nSave = 1 /\ last.nRepl = 1
          /\ Len(buf) = Len(last.pre) + Len(last.text) + 1

\* a pasted text, held by its quarantine node since the paste, has been
\* committed
C10_Witness ==
  /\ BlurRan /\ last.left.k = "quar"
  /\ last.text \in PastedTexts
  /\ Len(buf) = Len(last.pre) + 3

\* the references of deferred callbacks whose element has left the document
StaleKinds == {"staleTree", "staleQuar", "staleFocus"}

\* this step fires a deferred callback whose target has left the document
StaleFires ==
  /\ timers # <<>>
  /\ Head(timers).k \in StaleKinds
  /\ timers' = Tail(timers)

\* C21: a deferred callback (the refocus after copy or cut, the re-entry
\* into editing after an invalid edit, the edit entry after a quarantine)
\* that fires after its element has left the document does nothing: it
\* makes nothing editable, moves no focus and changes neither the text, the
\* tree, the elements nor the flag.
C21_StaleCallbackInert ==
  [][StaleFires => (/\ ~last'.entered
                    /\ UNCHANGED <<buf, ast, els, quars, focus,
                                   hasInvalidEdit>>)]_vars

\* the part of C21 that the code keeps: such a callback leaves the text,
\* the tree, the attached elements, the focus and the flag as they are
C21_StaleLeavesDocument ==
  [][StaleFires => UNCHANGED <<buf, ast, els, quars, focus,
                               hasInvalidEdit>>]_vars

\* a deferred entry into editing has fired after its element left
C21_StaleFired ==
  /\ last.op = "timer" /\ last.kind = "stale"
  /\ last.ref.k \in {"staleTree", "staleQuar"}

----------------------------------------------------------------------------
(* The typing specification: block mode over an empty buffer; the user     *)
(* enters the text abc, a character at a time or pasted, in one piece or   *)
(* in two, and then leaves; each input goes to whatever has the focus when *)
(* it is made, the buffer or the element being edited.                     *)

Abc == <<"a", "b", "c">>

\* the ways of entering the text: the pieces typed or pasted, in order
Scripts ==
  { << <<"a">>, <<"b">>, <<"c">> >>,
    << <<"a", "b">>, <<"c">> >>,
    << <<"a">>, <<"b", "c">> >>,
    << Abc >> }

InitTyping ==
  /\ buf = <<>>
  /\ blockMode = "blocks"
  /\ ast = Tree(Parse(buf))
  /\ els = FreshEls(buf, ast.nodes)
  /\ focus = OnCm
  /\ quars = NoQuars
  /\ timers = <<>>
  /\ hasInvalidEdit = FALSE
  /\ hooks \in [ will : {"none", "pad"}, did : BOOLEAN ]
  /\ drag = NoDrag
  /\ script \in Scripts
  /\ Undecorated
  /\ last = NoLast

NextTyping ==
  \/ \E cur \in AllPos(buf) :
       /\ script # <<>>
       /\ CursorOk(cur)
       /\ InsertionQuarantine(Head(script), cur)
       /\ script' = Tail(script)
       /\ UNCHANGED <<classes, hidden, marks>>
  \/ /\ script # <<>>
     /\ TypeInEl(FocusText \o Head(script))
     /\ script' = Tail(script)
     /\ UNCHANGED <<classes, hidden, marks>>
  \/ TimerFire /\ UNCHANGED rest
  \/ \E key \in {"Enter", "Tab"} :
       /\ script = <<>>
       /\ HandleEditKeyDown(key)
       /\ UNCHANGED rest
  \/ \E to \in {OnCm, OnBody} :
       /\ script = <<>>
       /\ Blur(to)
       /\ UNCHANGED rest

SpecTyping == InitTyping /\ [][NextTyping]_vars

\* the whole text has been entered, the user has left and nothing is pending
Left ==
  /\ script = <<>>
  /\ timers = <<>>
  /\ ~IsEl(focus)
  /\ \A q \in 1..MaxQuar : ~quars[q].live

\* C9: once the text abc has been entered into the empty buffer, typed a
\* character at a time or pasted, and the user has left, the text of the
\* buffer is abc followed by one separator.
C9_TypedEqualsPasted == Left => buf = Abc \o <<SP>>

\* a final text other than the one C9 names holds more than one node: it
\* comes of more than one quarantine node, so of an input made before the
\* callback of the input before it had fired
C9_OneQuarantine ==
  (Left /\ buf # Abc \o <<SP>>) => Len(Parse(buf)) > 1

----------------------------------------------------------------------------
(* The mode, the keys on a selected node, cut.                             *)

\* the names of the block modes the client switches between
Modes == {"blocks", "outline"}

\* classList.remove(this.blockMode) and classList.add(mode) on the wrapper
SwapClass(cls, old, new) == (cls \ {old}) \cup {new}

\* this.cm.getAllMarks().forEach(marker => marker.clear()): the elements of
\* the nodes and the widgets of the bookmarks leave the document; a focused
\* one that is being edited fires its blur handler
ClearAllMarks(st) ==
  LET f == st.focus
      st1 == [ st EXCEPT
                 !.els = <<>>,
                 !.quars = [ q \in DOMAIN st.quars |-> FreeQ ],
                 !.timers = [ t \in DOMAIN st.timers |-> Stale(st.timers[t]) ],
                 !.focus = IF IsEl(f) THEN OnBody ELSE f ]
  IN IF IsEl(f) /\ ElOf(st, f).onblur
     THEN SaveEdit(st1, Stale(f), NodeOf(st, f), ElOf(st, f).text)
     ELSE st1

\* setBlockMode(mode): this.blockMode is assigned last, after the handlers
\* that the clearing or the render set off have run
SetBlockMode(mode) ==
  /\ Len(timers) < MaxTimers
  /\ IF mode = blockMode
     THEN /\ last' = Observed(St, "mode", "same")
          /\ UNCHANGED <<buf, blockMode, ast, focus, els, quars, timers,
                         hasInvalidEdit, classes>>
     ELSE IF mode = Off
     THEN LET st == [ ClearAllMarks(St) EXCEPT !.mode = mode ]
          IN /\ Install(st)
             /\ last' = Observed(st, "mode", "off")
             /\ UNCHANGED classes
     ELSE LET st == [ Render(St) EXCEPT !.mode = mode ]
          IN /\ Install(st)
             /\ last' = Observed(st, "mode", IF blockMode = Off THEN "on"
                                             ELSE "switch")
             /\ classes' = SwapClass(classes, blockMode, mode)
  /\ UNCHANGED <<hooks, drag>>

\* a range that takes the character after the node with it: a fault that
\* C15_BackspaceDeletesNode detects
RangeAndNext(text, node) ==
  [ from |-> node.from,
    to |-> PosFromIndex(text, Min(IndexFromPos(text, node.to) + 1, Len(text))) ]

\* the range deleteSelectedNodes and the cut clear: node.from to node.to
NodeRange(text, node) == [ from |-> node.from, to |-> node.to ]

\* Backspace on the selected node n (handleKeyDown, deleteSelectedNodes);
\* an element being edited keeps the key to itself (handleEditKeyDown)
DeleteSelectedNodes(n) ==
  /\ focus = Ref("tree", n)
  /\ ~els[n].onblur
  /\ LET r == NodeRange(buf, ast.nodes[n])
         st == HandleChange(Replace(St, <<>>, r.from, r.to))
     IN /\ Install(st)
        /\ last' = [ Observed(st, "key", "delete") EXCEPT
                       !.key = "Backspace", !.ref = focus,
                       !.src = <<IndexFromPos(buf, ast.nodes[n].from),
                                 IndexFromPos(buf, ast.nodes[n].to)>> ]
  /\ UNCHANGED <<hooks, drag>>

\* Backspace with no node selected: the buffer's own command for the key
\* runs (this.keyMap), deleting the character before the cursor
DelCharBefore(cur) ==
  /\ focus = OnCm
  /\ IndexFromPos(buf, cur) > 0
  /\ LET i == IndexFromPos(buf, cur)
         st == HandleChange(Replace(St, <<>>, PosFromIndex(buf, i - 1), cur))
     IN /\ Install(st)
        /\ last' = [ Observed(st, "key", "default") EXCEPT
                       !.key = "Backspace", !.ref = focus, !.at = i ]
  /\ UNCHANGED <<hooks, drag>>

\* handleCopyCut for a cut event with node n selected: the range is
\* cleared, and the element is given the focus again 200 ms later
Cut(n) ==
  /\ focus = Ref("tree", n)
  /\ ~els[n].onblur
  /\ Len(timers) < MaxTimers
  /\ LET r == NodeRange(buf, ast.nodes[n])
         \* buffer.select() takes the focus to the scratch textarea
         st0 == [ St EXCEPT !.timers = Append(@, Ref("focus", n)),
                            !.focus = OnBody ]
         st == HandleChange(Replace(st0, <<>>, r.from, r.to))
     IN /\ Install(st)
        /\ last' = [ Observed(st, "cut", "") EXCEPT
                       !.ref = focus,
                       !.src = <<IndexFromPos(buf, ast.nodes[n].from),
                                 IndexFromPos(buf, ast.nodes[n].to)>> ]
  /\ UNCHANGED <<hooks, drag>>

----------------------------------------------------------------------------
(* The mode specification: an editor as the constructor leaves it, over a  *)
(* short text; the client switches the mode and changes the text, the user *)
(* types into the buffer one character at a time, selects and edits nodes, *)
(* moves the focus, and the deferred callbacks fire.                       *)

ModeTexts == { <<>>, <<"a">>, <<"a", SP, "a">> }

InitMode ==
  /\ buf \in ModeTexts
  /\ blockMode = Off
  /\ ast = NullAst
  /\ els = <<>>
  /\ focus = OnCm
  /\ quars = NoQuars
  /\ timers = <<>>
  /\ hasInvalidEdit = FALSE
  /\ hooks = [ will |-> "none", did |-> FALSE ]
  /\ drag = NoDrag
  /\ script = <<>>
  /\ classes = {}
  /\ hidden = {}
  /\ marks = NoMarks
  /\ last = NoLast

\* where the buffer's cursor can be: anywhere in a plain editor, not inside
\* a node's widget in a block mode
CursorAt(cur) == blockMode = Off \/ CursorOk(cur)

NextMode ==
  \/ \E mode \in Modes \cup {Off} :
       SetBlockMode(mode) /\ UNCHANGED <<script, hidden, marks>>
  \/ \E pos \in AllPos(buf) :
       /\ Len(buf) < MaxLen
       /\ ClientChange(<<"a">>, pos, pos)
       /\ UNCHANGED rest
  \/ \E cur \in AllPos(buf) :
       /\ Len(buf) < MaxLen
       /\ CursorAt(cur)
       /\ timers = <<>>
       /\ InsertionQuarantine(<<"a">>, cur)
       /\ UNCHANGED rest
  \/ TimerFire /\ UNCHANGED rest
  \/ \E n \in 1..Len(els) : SelectNode(n) /\ UNCHANGED rest
  \/ \E n \in 1..Len(els) :
       /\ Len(buf) < MaxLen
       /\ EditSelected(n, FALSE)
       /\ UNCHANGED rest
  \/ \E to \in {OnCm, OnBody} : Blur(to) /\ UNCHANGED rest

SpecMode == InitMode /\ [][NextMode]_vars

----------------------------------------------------------------------------
(* Claims about the mode.                                                  *)

\* C11: whenever a block mode is active, once the handlers of a step have
\* run, the engine's tree is the parse of the buffer text.
C11_TreeInSync ==
  blockMode # Off => (~ast.null /\ ast.nodes = Parse(buf))

\* C12: after any sequence of mode changes the wrapper carries the class of
\* the current mode and of no other, and no mode class when the mode is
\* Off.
C12_ClassFollowsMode ==
  classes = IF blockMode = Off THEN {} ELSE {blockMode}

\* C13: once the mode has been turned off, no element of a node and no
\* quarantine widget is left on the buffer and the engine holds no tree;
\* turning off parses nothing, and no step taken while the mode is Off
\* renders.
C13_OffClearsAll ==
  /\ (last.op = "mode" /\ last.kind = "off")
       => (els = <<>> /\ quars = NoQuars /\ ast.null /\ last.nRender = 0)
  /\ (blockMode = Off /\ last.op # "mode") => last.nRender = 0

\* C18: a keypress or paste makes a quarantine node only while a block
\* mode is active and no node is being edited or in error; otherwise the
\* buffer handles the input itself.
C18_QuarantineGuarded ==
  last.op = "quarantine" => (blockMode # Off /\ Marked \ {last.ref} = {})

\* the text t with x put in at offset m
InsertedAt(t, m, x) == SubSeq(t, 1, m) \o x \o SubSeq(t, m + 1, Len(t))

\* C19: when the quarantine node that has the focus is committed by a move
\* of the focus, its text and the separator go in where its bookmark is at
\* that moment, wherever the cursor was when the quarantine was entered.
C19_CommitAtBookmark ==
  [][ \A q \in 1..MaxQuar :
        ( /\ focus = Ref("quar", q)
          /\ quars[q].live /\ quars[q].onblur
          /\ LexOk(quars[q].text)
          /\ last'.op = "blur" /\ last'.saved
          /\ last'.left = Ref("quar", q) )
        => buf' = InsertedAt(buf, quars[q].mark, quars[q].text \o <<SP>>)
    ]_vars

----------------------------------------------------------------------------
(* The keys specification: an editor as the constructor leaves it; the     *)
(* client switches block mode on and off and inserts text, the user        *)
(* selects nodes, deletes with Backspace, cuts, and moves the focus.       *)

NextKeys ==
  \/ \E mode \in {"blocks", Off} :
       SetBlockMode(mode) /\ UNCHANGED <<script, hidden, marks>>
  \/ \E pos \in AllPos(buf), c \in {"a", SP} :
       /\ Len(buf) < MaxLen
       /\ ClientChange(<<c>>, pos, pos)
       /\ UNCHANGED rest
  \/ \E n \in 1..Len(els) : SelectNode(n) /\ UNCHANGED rest
  \/ Blur(OnCm) /\ UNCHANGED rest
  \/ \E n \in 1..Len(els) : DeleteSelectedNodes(n) /\ UNCHANGED rest
  \/ \E cur \in AllPos(buf) :
       /\ CursorAt(cur)
       /\ DelCharBefore(cur)
       /\ UNCHANGED rest
  \/ \E n \in 1..Len(els) : Cut(n) /\ UNCHANGED rest
  \/ RefocusFire /\ UNCHANGED rest

SpecKeys == InitMode /\ [][NextKeys]_vars

\* the text t without the characters of the range r
Without(t, r) == SubSeq(t, 1, r[1]) \o SubSeq(t, r[2] + 1, Len(t))

\* C15: Backspace on a selected node leaves the text that was there with
\* the characters from node.from up to node.to taken out and every other
\* character where it was, by one replaceRange, and while a block mode is
\* active the change is followed by a re-render; Backspace with no node
\* selected deletes no node's range: the buffer's own command takes out the
\* one character before the cursor.
C15_BackspaceDeletesNode ==
  /\ (last.op = "key" /\ last.kind = "delete")
       => /\ buf = Without(last.pre, last.src)
          /\ last.nRepl = 1
          /\ blockMode # Off => (last.nRender >= 1 /\ ast.nodes = Parse(buf))
  /\ (last.op = "key" /\ last.kind = "default")
       => buf = Without(last.pre, <<last.at - 1, last.at>>)

\* in a block mode the first of two nodes was deleted with Backspace: the
\* blank after it and the second node are still there
C15_Witness ==
  /\ last.op = "key" /\ last.kind = "delete"
  /\ blockMode # Off
  /\ last.pre = <<"a", SP, "a">>
  /\ last.src = <<0, 1>>
  /\ buf = <<SP, "a">>
  /\ last.nRender = 1

----------------------------------------------------------------------------
(* Navigation: Tab and Shift-Tab select the next and the previous node     *)
(* that is not hidden.  ast.getNodeAfter and ast.getNodeBefore are the     *)
(* inorder successor and predecessor of a node, or of the cursor when no   *)
(* node is selected; 0 stands for none.                                    *)

\* getSelectedNode() || this.cm.getCursor()
NodeOrCursor(f, cur) ==
  IF f.k = "tree" THEN [ node |-> f.i, pos |-> cur ]
  ELSE [ node |-> 0, pos |-> cur ]

\* this.ast.getNodeAfter(sel)
GetNodeAfter(text, tree, sel) ==
  LET S == IF sel.node # 0
           THEN { j \in 1..Len(tree) : j > sel.node }
           ELSE { j \in 1..Len(tree) :
                    IndexFromPos(text, tree[j].from) >= IndexFromPos(text, sel.pos) }
  IN IF S = {} THEN 0 ELSE CHOOSE j \in S : \A i \in S : j <= i

\* this.ast.getNodeBefore(sel)
GetNodeBefore(text, tree, sel) ==
  LET S == IF sel.node # 0
           THEN { j \in 1..Len(tree) : j < sel.node }
           ELSE { j \in 1..Len(tree) :
                    IndexFromPos(text, tree[j].to) <= IndexFromPos(text, sel.pos) }
  IN IF S = {} THEN 0 ELSE CHOOSE j \in S : \A i \in S : j >= i

\* isNodeHidden(node): node.el carries the class blocks-hidden
IsNodeHidden(hid, k) == k \in hid

\* the loops of selectNextNode and selectPrevNode: the node they end on, or
\* 0 when the walk runs off the tree, where isNodeHidden reads the element
\* of no node and throws
RECURSIVE SkipHidden(_, _, _, _, _)
SkipHidden(text, tree, hid, k, forward) ==
  IF k = 0 THEN 0
  ELSE IF IsNodeHidden(hid, k)
       THEN SkipHidden(text, tree, hid,
                       IF forward
                       THEN GetNodeAfter(text, tree, [ node |-> k, pos |-> Pos(0, 0) ])
                       ELSE GetNodeBefore(text, tree, [ node |-> k, pos |-> Pos(0, 0) ]),
                       forward)
       ELSE k

\* selectNextNode (forward) and selectPrevNode, reached from handleKeyDown
\* on Tab and Shift-Tab; an element being edited keeps the key to itself
SelectNextOrPrev(forward, cur) ==
  /\ ~ast.null
  /\ focus.k \in {"cm", "tree"}
  /\ focus.k = "tree" => ~els[focus.i].onblur
  /\ Len(timers) < MaxTimers
  /\ LET sel == NodeOrCursor(focus, cur)
         first == IF forward THEN GetNodeAfter(buf, ast.nodes, sel)
                  ELSE GetNodeBefore(buf, ast.nodes, sel)
         k == SkipHidden(buf, ast.nodes, hidden, first, forward)
     IN IF k = 0
        THEN \* TypeError: the handler ends there
             /\ last' = [ Observed(St, "nav", IF forward THEN "next" ELSE "prev")
                            EXCEPT !.raised = TRUE, !.left = focus,
                                   !.at = IndexFromPos(buf, cur) ]
             /\ UNCHANGED <<buf, blockMode, ast, focus, els, quars, timers,
                            hasInvalidEdit>>
        ELSE LET st == MoveFocus(St, Ref("tree", k))
             IN /\ Install(st)
                /\ last' = [ Observed(st, "nav", IF forward THEN "next" ELSE "prev")
                               EXCEPT !.left = focus, !.ref = Ref("tree", k),
                                      !.at = IndexFromPos(buf, cur) ]
  /\ UNCHANGED <<hooks, drag>>

----------------------------------------------------------------------------
(* The navigation specification: a block-mode editor over a text of up to  *)
(* three nodes, any of them hidden; the user presses Tab and Shift-Tab,    *)
(* clicks a visible node, or puts the focus back in the buffer.            *)

NavTexts ==
  { <<>>, <<SP>>, <<"a">>, <<"a", SP, "a">>, <<"a", SP, "a", SP, "a">> }

InitNav ==
  /\ buf \in NavTexts
  /\ blockMode = "blocks"
  /\ ast = Tree(Parse(buf))
  /\ els = FreshEls(buf, ast.nodes)
  /\ focus = OnCm
  /\ quars = NoQuars
  /\ timers = <<>>
  /\ hasInvalidEdit = FALSE
  /\ hooks = [ will |-> "none", did |-> FALSE ]
  /\ drag = NoDrag
  /\ script = <<>>
  /\ classes = {"blocks"}
  /\ hidden \in SUBSET (1..Len(ast.nodes))
  /\ marks = NoMarks
  /\ last = NoLast

NextNav ==
  \/ \E forward \in BOOLEAN, cur \in AllPos(buf) :
       /\ CursorOk(cur)
       /\ SelectNextOrPrev(forward, cur)
       /\ UNCHANGED rest
  \/ \E n \in 1..Len(els) :
       /\ n \notin hidden
       /\ SelectNode(n)
       /\ UNCHANGED rest
  \/ Blur(OnCm) /\ UNCHANGED rest

SpecNav == InitNav /\ [][NextNav]_vars

\* the visible nodes after (before) the place the step started from
NavCandidates ==
  { j \in 1..Len(ast.nodes) :
      /\ j \notin hidden
      /\ IF last.left.k = "tree"
         THEN (IF last.kind = "next" THEN j > last.left.i ELSE j < last.left.i)
         ELSE IF last.kind = "next"
              THEN IndexFromPos(buf, ast.nodes[j].from) >= last.at
              ELSE IndexFromPos(buf, ast.nodes[j].to) <= last.at }

\* C14: a step of the navigation selects the nearest visible node after
\* (before) the selected node or the cursor; when there is none, the focus
\* stays where it was and the handler does not fail.
C14_NavigationTotal ==
  last.op = "nav" =>
    /\ ~last.raised
    /\ IF NavCandidates = {} THEN focus = last.left
       ELSE /\ focus.k = "tree"
            /\ focus.i \in NavCandidates
            /\ \A j \in NavCandidates :
                 IF last.kind = "next" THEN focus.i <= j ELSE focus.i >= j

----------------------------------------------------------------------------
(* The decoration API.  The buffer's marks are the widgets of the nodes    *)
(* (one per element, replacedWith an element of class blocks-node) and the *)
(* plain marks made by cm.markText, by other code or by the pass-through   *)
(* of markText.  marks.tags holds the MARKER property of the widgets,      *)
(* marks.owner the cmMarker of every BlockMarker made, in the order made,  *)
(* marks.cleared the BlockMarkers whose clear() has run.                   *)

\* the number of BlockMarkers made at which markText is called no more
MaxMarkers == 2
\* the number of plain marks on the buffer at one time
MaxPlain == 1

\* the marks of the buffer with their ranges as offsets; tag is the
\* BlockMarker under mark[MARKER], 0 for none
CmAllMarks(text, tree, mk) ==
  { [ ref |-> Ref("tree", k),
      lo |-> IndexFromPos(text, tree[k].from),
      hi |-> IndexFromPos(text, tree[k].to),
      tag |-> IF \E t \in mk.tags : t.on = Ref("tree", k)
              THEN (CHOOSE t \in mk.tags : t.on = Ref("tree", k)).id
              ELSE 0 ] : k \in 1..Len(tree) }
    \cup
  { [ ref |-> Ref(p.by, 0), lo |-> p.lo, hi |-> p.hi, tag |-> 0 ] :
      p \in mk.foreign }

\* this.cm.findMarks(from, to), the ends given as offsets
CmFindMarks(text, tree, mk, f, t) ==
  { m \in CmAllMarks(text, tree, mk) : f < m.hi /\ m.lo < t }

\* this.cm.findMarksAt(pos)
CmFindMarksAt(text, tree, mk, p) ==
  { m \in CmAllMarks(text, tree, mk) : m.lo <= p /\ p <= m.hi }

\* a filter that lets every mark through: a fault that C16_OnlyOwnLiveMarks
\* detects
Unfiltered(ms) == ms

\* .filter(mark => mark[MARKER])
Tagged(ms) == { m \in ms : m.tag # 0 }

\* .map(mark => mark[MARKER])
Markers(ms) == { m.tag : m \in ms }

\* findMarks(from, to), findMarksAt(pos), getAllMarks() of the engine
FindMarks(text, tree, mk, f, t) ==
  Markers(Tagged(CmFindMarks(text, tree, mk, f, t)))
FindMarksAt(text, tree, mk, p) ==
  Markers(Tagged(CmFindMarksAt(text, tree, mk, p)))
GetAllMarks(text, tree, mk) ==
  Markers(Tagged(CmAllMarks(text, tree, mk)))

\* what a render does to the marks: _clearMarks clears the widgets and the
\* plain marks, the new widgets carry no tag
MarksAfterRender(mk) ==
  [ mk EXCEPT !.tags = {},
              !.owner = [ i \in DOMAIN mk.owner |-> Stale(mk.owner[i]) ],
              !.foreign = {} ]

\* markText(from, to, options): opt is "none" for no option; w is the
\* widget the loop over the marks found stops at
MarkText(f, t, opt, w) ==
  /\ blockMode # Off
  /\ Len(marks.owner) < MaxMarkers
  /\ LET found == CmFindMarks(buf, ast.nodes, marks, f, t)
         widgets == { m \in found : m.ref.k = "tree" }
     IN IF opt = "none"
        THEN /\ w = 0
             /\ UNCHANGED marks
             /\ last' = Observed(St, "mark", "noop")
        ELSE IF widgets # {}
        THEN /\ \E m \in widgets : m.ref = Ref("tree", w)
             /\ marks' =
                  [ marks EXCEPT
                      !.tags = { x \in @ : x.on # Ref("tree", w) }
                                 \cup { [ on |-> Ref("tree", w),
                                          id |-> Len(marks.owner) + 1 ] },
                      !.owner = Append(@, Ref("tree", w)) ]
             /\ last' = [ Observed(St, "mark", "tag") EXCEPT
                            !.at = Len(marks.owner) + 1 ]
        ELSE /\ w = 0
             /\ f < t
             /\ Cardinality(marks.foreign) < MaxPlain
             /\ marks' = [ marks EXCEPT
                             !.foreign = @ \cup { [ lo |-> f, hi |-> t,
                                                    by |-> "engine" ] } ]
             /\ last' = Observed(St, "mark", "plain")
  /\ UNCHANGED <<buf, blockMode, ast, focus, els, quars, timers,
                 hasInvalidEdit, hooks, drag>>

\* BlockMarker.clear() on the BlockMarker made id-th
ClearBlockMarker(id) ==
  /\ id \in 1..Len(marks.owner)
  /\ marks' = [ marks EXCEPT
                  !.tags = { x \in @ : x.on # marks.owner[id] },
                  !.cleared = @ \cup {id} ]
  /\ last' = [ Observed(St, "mark", "clear") EXCEPT !.at = id ]
  /\ UNCHANGED <<buf, blockMode, ast, focus, els, quars, timers,
                 hasInvalidEdit, hooks, drag>>

\* other code marks a range with this.cm.markText, or clears its mark
ForeignMark(f, t) ==
  /\ f < t
  /\ Cardinality(marks.foreign) < MaxPlain
  /\ marks' = [ marks EXCEPT
                  !.foreign = @ \cup { [ lo |-> f, hi |-> t, by |-> "other" ] } ]
  /\ last' = Observed(St, "mark", "foreign")
  /\ UNCHANGED <<buf, blockMode, ast, focus, els, quars, timers,
                 hasInvalidEdit, hooks, drag>>

ForeignClear ==
  /\ marks.foreign # {}
  /\ \E p \in marks.foreign : marks' = [ marks EXCEPT !.foreign = @ \ {p} ]
  /\ last' = Observed(St, "mark", "unmark")
  /\ UNCHANGED <<buf, blockMode, ast, focus, els, quars, timers,
                 hasInvalidEdit, hooks, drag>>

----------------------------------------------------------------------------
(* The decoration specification: a block-mode editor over one or two       *)
(* nodes; the client marks ranges and clears its markers, other code marks *)
(* ranges of its own, and the text changes, which re-renders.              *)

MarkTexts == { <<"a">>, <<"a", SP, "a">> }

InitMarks ==
  /\ buf \in MarkTexts
  /\ blockMode = "blocks"
  /\ ast = Tree(Parse(buf))
  /\ els = FreshEls(buf, ast.nodes)
  /\ focus = OnCm
  /\ quars = NoQuars
  /\ timers = <<>>
  /\ hasInvalidEdit = FALSE
  /\ hooks = [ will |-> "none", did |-> FALSE ]
  /\ drag = NoDrag
  /\ script = <<>>
  /\ Undecorated
  /\ last = NoLast

NextMarks ==
  \/ \E f \in 0..Len(buf), t \in 0..Len(buf), opt \in {"none", "css"},
        w \in 0..Len(ast.nodes) :
       /\ f <= t
       /\ MarkText(f, t, opt, w)
       /\ UNCHANGED <<script, classes, hidden>>
  \/ \E id \in 1..MaxMarkers :
       ClearBlockMarker(id) /\ UNCHANGED <<script, classes, hidden>>
  \/ \E f \in 0..Len(buf), t \in 0..Len(buf) :
       ForeignMark(f, t) /\ UNCHANGED <<script, classes, hidden>>
  \/ ForeignClear /\ UNCHANGED <<script, classes, hidden>>
  \/ \E pos \in AllPos(buf) :
       /\ Len(buf) < MaxLen
       /\ ClientChange(<<"a">>, pos, pos)
       /\ marks' = MarksAfterRender(marks)
       /\ UNCHANGED <<script, classes, hidden>>

SpecMarks == InitMarks /\ [][NextMarks]_vars

\* the BlockMarkers markText has made and nobody has cleared
LiveMarkers == { id \in 1..Len(marks.owner) : id \notin marks.cleared }

\* C16: whatever range or position is asked for, findMarks, findMarksAt and
\* getAllMarks return only BlockMarkers that markText made and whose
\* clear() has not run: never a mark of other code, never a cleared one.
C16_OnlyOwnLiveMarks ==
  /\ GetAllMarks(buf, ast.nodes, marks) \subseteq LiveMarkers
  /\ \A f \in 0..Len(buf), t \in 0..Len(buf) :
       FindMarks(buf, ast.nodes, marks, f, t) \subseteq LiveMarkers
  /\ \A p \in 0..Len(buf) :
       FindMarksAt(buf, ast.nodes, marks, p) \subseteq LiveMarkers

\* one BlockMarker has been cleared, another is returned by getAllMarks,
\* and a mark of other code lies on the buffer
C16_Witness ==
  /\ marks.cleared # {}
  /\ GetAllMarks(buf, ast.nodes, marks) # {}
  /\ \E p \in marks.foreign : p.by = "other"


====
